---------------------------- MODULE Spec2Model ----------------------------
(***************************************************************************)
(* A model of update.py: the tag parser (parse_tags), the version encoder  *)
(* and composer (version_tuple, version_join), tag reconciliation with     *)
(* baseline synthesis (get_tags, get_src), the describe resolver           *)
(* (git_describe) and the module loop of main.                             *)
(*                                                                         *)
(* Strings are sequences of one-character strings, so that stripping,      *)
(* truncation, formatting and parsing are computed, not assumed.           *)
(* An optional integer (Python's None or an int) is a sequence of length   *)
(* at most one: << >> is None, <<n>> is the integer n.                     *)
(***************************************************************************)
EXTENDS Integers, Sequences, FiniteSets, TLC

(***************************************************************************)
(* Bounds of the model.                                                    *)
(***************************************************************************)
MaxRelLen == 3      \* longest enumerated release
MaxComp == 1        \* largest enumerated release component and post count
MaxTags == 2        \* longest enumerated list of tags
MaxStoreTags == 2   \* most tags in an upstream repository at the start
MaxDist == 1        \* largest commit distance git describe reports
MaxModules == 2     \* most sections in modules.ini

(***************************************************************************)
(* Characters and strings.                                                 *)
(***************************************************************************)
Digits == <<"0", "1", "2", "3", "4", "5", "6", "7", "8", "9">>

\* The characters of the model in ascending code-point order.
Alphabet ==
    <<"\n", " ", "-", ".">> \o Digits \o
    <<"_", "a", "b", "c", "d", "e", "f", "g", "h", "i", "j", "k", "l", "m",
      "n", "o", "p", "q", "r", "s", "t", "u", "v", "w", "x", "y", "z">>

IsDigit(c) == \E i \in 1..Len(Digits) : Digits[i] = c

DigitVal(c) == (CHOOSE i \in 1..Len(Digits) : Digits[i] = c) - 1

\* The rank of a character in code-point order.
OrdOf ==
    [c \in {Alphabet[i] : i \in 1..Len(Alphabet)} |->
        CHOOSE i \in 1..Len(Alphabet) : Alphabet[i] = c]

Ord(c) == OrdOf[c]

\* s[i], or the empty string past either end.
At(s, i) == IF i >= 1 /\ i <= Len(s) THEN s[i] ELSE ""

\* The word w occurs in s at position i.
HasAt(s, i, w) == \A k \in 1..Len(w) : At(s, i + k - 1) = w[k]

\* s[i:] of Python, i counted from 1.
From(s, i) == IF i > Len(s) THEN << >> ELSE SubSeq(s, i, Len(s))

RECURSIVE Reverse(_)
Reverse(s) == IF s = << >> THEN << >> ELSE Reverse(Tail(s)) \o <<Head(s)>>

\* Python's comparison of two sequences of integers: the first differing
\* position decides, and a proper prefix is smaller.
RECURSIVE IntSeqLess(_, _)
IntSeqLess(a, b) ==
    IF b = << >> THEN FALSE
    ELSE IF a = << >> THEN TRUE
    ELSE IF Head(a) = Head(b) THEN IntSeqLess(Tail(a), Tail(b))
    ELSE Head(a) < Head(b)

\* str < str: the same comparison on code points.
StrLess(s, t) ==
    IntSeqLess([i \in 1..Len(s) |-> Ord(s[i])], [i \in 1..Len(t) |-> Ord(t[i])])

\* str.strip(): leading and trailing blanks removed.
RECURSIVE LStrip(_)
LStrip(s) == IF s # << >> /\ Head(s) = " " THEN LStrip(Tail(s)) ELSE s

Strip(s) == Reverse(LStrip(Reverse(LStrip(s))))

\* str(n) for n >= 0.
RECURSIVE IntToStr(_)
IntToStr(n) ==
    IF n < 10 THEN <<Digits[n + 1]>>
    ELSE IntToStr(n \div 10) \o <<Digits[(n % 10) + 1]>>

\* sep.join(parts)
RECURSIVE Join(_, _)
Join(sep, parts) ==
    IF parts = << >> THEN << >>
    ELSE IF Len(parts) = 1 THEN parts[1]
    ELSE parts[1] \o sep \o Join(sep, Tail(parts))

(***************************************************************************)
(* packaging.version: the parser.  The grammar is PEP 440's                *)
(*   v? N(.N)* ([-_.]?rc[-_.]?N?)? (-N | [-_.]?(post|rev|r)[-_.]?N?)?      *)
(* (epochs, the other pre-release letters, dev and local segments do not   *)
(* occur in the strings of this model).  A string outside the grammar is   *)
(* not a version: version.parse raises InvalidVersion or, in older         *)
(* releases of the library, returns a LegacyVersion; parse_tags treats     *)
(* the two alike.                                                          *)
(***************************************************************************)
Seps == {"-", "_", "."}

\* The end of the run of digits that starts at i.
RECURSIVE DigitsEnd(_, _)
DigitsEnd(s, i) == IF IsDigit(At(s, i)) THEN DigitsEnd(s, i + 1) ELSE i

\* int(s[i..j-1]); 0 for the empty run (an implicit number).
RECURSIVE NumVal(_, _, _)
NumVal(s, i, j) ==
    IF j <= i THEN 0 ELSE NumVal(s, i, j - 1) * 10 + DigitVal(s[j - 1])

\* The end of the release segment, i being just past a run of digits.
RECURSIVE ReleaseEnd(_, _)
ReleaseEnd(s, i) ==
    IF At(s, i) = "." /\ IsDigit(At(s, i + 1))
    THEN ReleaseEnd(s, DigitsEnd(s, i + 1))
    ELSE i

\* The release components in s[i..j-1].
RECURSIVE ReleaseOf(_, _, _)
ReleaseOf(s, i, j) ==
    IF i >= j THEN << >>
    ELSE <<NumVal(s, i, DigitsEnd(s, i))>> \o ReleaseOf(s, DigitsEnd(s, i) + 1, j)

\* A parsed version: ok = FALSE is InvalidVersion / LegacyVersion.
Invalid == [ok |-> FALSE, release |-> << >>, pre |-> << >>, post |-> << >>]

MkVersion(rel, pre, post) ==
    [ok |-> TRUE, release |-> rel, pre |-> pre, post |-> post]

\* An optional separator at i is skipped.
SkipSep(s, i) == IF At(s, i) \in Seps THEN i + 1 ELSE i

\* A separator at i is part of the number after it only if digits follow.
SkipSepNum(s, i) ==
    IF At(s, i) \in Seps /\ IsDigit(At(s, i + 1)) THEN i + 1 ELSE i

\* The length of the post-release word at i, 0 if there is none.
PostWordLen(s, i) ==
    IF HasAt(s, i, <<"p", "o", "s", "t">>) THEN 4
    ELSE IF HasAt(s, i, <<"r", "e", "v">>) THEN 3
    ELSE IF HasAt(s, i, <<"r">>) THEN 1
    ELSE 0

\* The parser reads a string left to right; each operator below is one
\* segment of the grammar, handed the string and the place reached.

\* The end of the string: anything left over makes the string invalid.
VersionEnd(s, rel, pre, post, end) ==
    IF end = Len(s) + 1 THEN MkVersion(rel, pre, post) ELSE Invalid

\* The number of a post-release word: [-_.]?N?, w2 being where N starts.
VersionPostNum(s, rel, pre, w2) ==
    VersionEnd(s, rel, pre, <<NumVal(s, w2, DigitsEnd(s, w2))>>, DigitsEnd(s, w2))

\* The post-release word at w0, if any, q0 being where the segment starts.
VersionPostWord(s, rel, pre, q0, w0) ==
    IF PostWordLen(s, w0) > 0
    THEN VersionPostNum(s, rel, pre, SkipSepNum(s, w0 + PostWordLen(s, w0)))
    ELSE VersionEnd(s, rel, pre, << >>, q0)

\* The post-release segment at q0: -N, or a post-release word.
VersionPost(s, rel, pre, q0) ==
    IF At(s, q0) = "-" /\ IsDigit(At(s, q0 + 1))
    THEN VersionEnd(s, rel, pre, <<NumVal(s, q0 + 1, DigitsEnd(s, q0 + 1))>>,
                    DigitsEnd(s, q0 + 1))
    ELSE VersionPostWord(s, rel, pre, q0, SkipSep(s, q0))

\* The number of a pre-release: [-_.]?N?, p2 being where N starts.
VersionPreNum(s, rel, p2) ==
    VersionPost(s, rel, <<NumVal(s, p2, DigitsEnd(s, p2))>>, DigitsEnd(s, p2))

\* The pre-release segment: [-_.]?rc, p0 being past the separator, or none.
VersionPre(s, rel, r1, p0) ==
    IF HasAt(s, p0, <<"r", "c">>)
    THEN VersionPreNum(s, rel, SkipSepNum(s, p0 + 2))
    ELSE VersionPost(s, rel, << >>, r1)

\* The release segment s[i0..r1-1].
VersionRelease(s, i0, r1) ==
    VersionPre(s, ReleaseOf(s, i0, r1), r1, SkipSep(s, r1))

\* The string past its optional leading v.
VersionFrom(s, i0) ==
    IF ~IsDigit(At(s, i0)) THEN Invalid
    ELSE VersionRelease(s, i0, ReleaseEnd(s, DigitsEnd(s, i0)))

VersionStripped(s) == VersionFrom(s, IF At(s, 1) = "v" THEN 2 ELSE 1)

\* version.Version(s0) / version.parse(s0)
Version(s0) == VersionStripped(Strip(s0))

\* str(v) of a Version: the normalised form.
VersionStr(v) ==
    Join(<<".">>, [i \in 1..Len(v.release) |-> IntToStr(v.release[i])])
    \o (IF v.pre = << >> THEN << >> ELSE <<"r", "c">> \o IntToStr(v.pre[1]))
    \o (IF v.post = << >> THEN << >>
        ELSE <<".", "p", "o", "s", "t">> \o IntToStr(v.post[1]))

(***************************************************************************)
(* packaging.version: the order (Version._key).                            *)
(***************************************************************************)
\* The release with its trailing zeros dropped.
RECURSIVE StripZeros(_)
StripZeros(r) ==
    IF r # << >> /\ r[Len(r)] = 0
    THEN StripZeros(SubSeq(r, 1, Len(r) - 1))
    ELSE r

\* The comparison key (epoch, release, pre, post, dev, local) flattened: the
\* stripped release, closed by -1 so that a release that is a prefix of
\* another compares smaller, then the pre-release (none is +infinity), then
\* the post-release (none is -infinity).
CmpKey(v) ==
    StripZeros(v.release)
    \o <<-1>>
    \o (IF v.pre = << >> THEN <<1, 0>> ELSE <<0, v.pre[1]>>)
    \o (IF v.post = << >> THEN <<0, 0>> ELSE <<1, v.post[1]>>)

VersionLess(a, b) == IntSeqLess(CmpKey(a), CmpKey(b))

VersionEq(a, b) == CmpKey(a) = CmpKey(b)

VersionLE(a, b) == VersionLess(a, b) \/ VersionEq(a, b)

(***************************************************************************)
(* version_tuple and version_join.                                         *)
(***************************************************************************)
\* tuple(list(vdesc.release) + [vdesc.post])
version_tuple(vdesc) ==
    [i \in 1..Len(vdesc.release) |-> <<vdesc.release[i]>>] \o <<vdesc.post>>

\* while len(vt) < n: vt.append(0)
PadTo(vt, n) == vt \o [i \in 1..(n - Len(vt)) |-> <<0>>]

\* The value of a tuple slot in the sum: None counts as 0.
SlotVal(x) == IF x = << >> THEN 0 ELSE x[1]

\* The loop over zip(vta, vtb): a pair of Nones is skipped, every other pair
\* gives str(a + b).
RECURSIVE SumPairs(_, _)
SumPairs(vta, vtb) ==
    IF vta = << >> \/ vtb = << >> THEN << >>
    ELSE IF Head(vta) = << >> /\ Head(vtb) = << >>
         THEN SumPairs(Tail(vta), Tail(vtb))
         ELSE <<IntToStr(SlotVal(Head(vta)) + SlotVal(Head(vtb)))>>
              \o SumPairs(Tail(vta), Tail(vtb))

Max(x, y) == IF x >= y THEN x ELSE y

\* version.Version(".".join(vo[1:][::-1]) + ".post" + vo[0])
JoinedVersion(vo) ==
    Version(Join(<<".">>, Reverse(Tail(vo)))
            \o <<".", "p", "o", "s", "t">> \o Head(vo))

\* A plausible slip: the second tuple is padded at its front.
JoinReversed_padfront(vta, vtb) ==
    JoinedVersion(
        SumPairs(PadTo(vta, Max(Len(vta), Len(vtb))),
                 [i \in 1..(Len(vta) - Len(vtb)) |-> <<0>>] \o vtb))

\* version_join from the two reversed tuples on: both padded to the longer,
\* summed, and the version made of the sums.
JoinReversed(vta, vtb) ==
    JoinedVersion(
        SumPairs(PadTo(vta, Max(Len(vta), Len(vtb))),
                 PadTo(vtb, Max(Len(vta), Len(vtb)))))

\* version_join(vdesc_a, vdesc_b); Invalid is the InvalidVersion it raises.
version_join(vdesc_a, vdesc_b) ==
    JoinReversed(Reverse(version_tuple(vdesc_a)), Reverse(version_tuple(vdesc_b)))

(***************************************************************************)
(* The versions the composer is applied to.                                *)
(***************************************************************************)
RECURSIVE SeqsUpTo(_, _)
\* The sequences over S of length 1..n.
SeqsUpTo(S, n) ==
    IF n = 0 THEN {}
    ELSE SeqsUpTo(S, n - 1) \cup [1..n -> S]

Posts == {<< >>} \cup {<<n>> : n \in 0..MaxComp}

\* The versions of the doctest of version_join, 1.2 and 3.4.5, and a release
\* candidate.
V12 == MkVersion(<<1, 2>>, << >>, << >>)

V345 == MkVersion(<<3, 4, 5>>, << >>, << >>)

V12rc1 == MkVersion(<<1, 2>>, <<1>>, << >>)

Versions ==
    {MkVersion(r, << >>, p) : r \in SeqsUpTo(0..MaxComp, MaxRelLen), p \in Posts}
    \cup {V12, V345, V12rc1}

(***************************************************************************)
(* parse_tags.                                                             *)
(***************************************************************************)
\* The index of the first occurrence of the word w in s at or after i,
\* 0 if there is none: str.find, counted from 1.
RECURSIVE Find(_, _, _)
Find(s, w, i) ==
    IF i + Len(w) - 1 > Len(s) THEN 0
    ELSE IF HasAt(s, i, w) THEN i
    ELSE Find(s, w, i + 1)

\* str.splitlines(): the lines of a text, a final line break adding none.
RECURSIVE SplitLines(_)
SplitLines(d) ==
    IF d = << >> THEN << >>
    ELSE IF Find(d, <<"\n">>, 1) = 0 THEN <<d>>
    ELSE <<SubSeq(d, 1, Find(d, <<"\n">>, 1) - 1)>>
         \o SplitLines(From(d, Find(d, <<"\n">>, 1) + 1))

\* nt = nt[:dashg] if '-g' is found at dashg (0: not found).
CutAt(nt, dashg) == IF dashg # 0 THEN SubSeq(nt, 1, dashg - 1) ELSE nt

CutAtDashG(nt) == CutAt(nt, Find(nt, <<"-", "g">>, 1))

\* The string a line is parsed from: the line stripped, or, when the
\* stripped line starts with v, the unstripped line less its first
\* character; then cut at the first -g.
LineVersionText(t) ==
    CutAtDashG(IF At(Strip(t), 1) = "v" THEN From(t, 2) ELSE Strip(t))

\* The version of a line, Invalid for a line that goes to the ignored list.
LineVersion(t) == Version(LineVersionText(t))

\* A plausible slip: the sort compares the versions alone (a key function).
TagLess_versiononly(x, y) == VersionLess(x.v, y.v)

\* (v, t) < (v2, t2) of Python: the versions decide unless they are equal,
\* and then the tag strings do.
TagLess(x, y) ==
    IF VersionEq(x.v, y.v) THEN StrLess(x.t, y.t) ELSE VersionLess(x.v, y.v)

\* list.sort(): a stable sort.  x is put before the first element greater
\* than it.
RECURSIVE SortInsert(_, _)
SortInsert(sorted, x) ==
    IF sorted = << >> THEN <<x>>
    ELSE IF TagLess(x, Head(sorted)) THEN <<x>> \o sorted
    ELSE <<Head(sorted)>> \o SortInsert(Tail(sorted), x)

\* A plausible slip: the list is returned unsorted.
SortTags_unsorted(ts) == ts

RECURSIVE SortTags(_)
SortTags(ts) ==
    IF ts = << >> THEN << >>
    ELSE SortInsert(SortTags(SubSeq(ts, 1, Len(ts) - 1)), ts[Len(ts)])

\* The loop of parse_tags over the lines: each line with its version,
\* Invalid for a line that goes to the ignored list.
ParsedLines(lines) ==
    [i \in 1..Len(lines) |-> [v |-> LineVersion(lines[i]), t |-> lines[i]]]

IsValidPair(x) == x.v.ok

IsIgnoredPair(x) == ~x.v.ok

TagNames(ts) == [i \in 1..Len(ts) |-> ts[i].t]

\* What parse_tags returns for the lines parsed: the (v, t) pairs of the
\* lines that parse, sorted, and the lines that do not, in line order (the
\* first slot of itags; the second, None or a LegacyVersion, is only
\* printed).
ParseTagsResult(parsed) ==
    [tags |-> SortTags(SelectSeq(parsed, IsValidPair)),
     itags |-> TagNames(SelectSeq(parsed, IsIgnoredPair))]

\* parse_tags(d, ignored=True)
parse_tags(d) == ParseTagsResult(ParsedLines(SplitLines(d)))

\* The text of a list of lines, each ended by a line break.
RECURSIVE Unlines(_)
Unlines(lines) ==
    IF lines = << >> THEN << >>
    ELSE Head(lines) \o <<"\n">> \o Unlines(Tail(lines))

\* The position of key k in an ordered dictionary, 0 if absent.
RECURSIVE KeyIndex(_, _, _)
KeyIndex(od, k, i) ==
    IF i > Len(od) THEN 0
    ELSE IF od[i].t = k THEN i
    ELSE KeyIndex(od, k, i + 1)

\* tags[t] = (v, get_hash(t)) on an OrderedDict: a new key is appended, an
\* old key keeps its place and takes the new value.
OdSet(od, e) ==
    IF KeyIndex(od, e.t, 1) = 0 THEN Append(od, e)
    ELSE [od EXCEPT ![KeyIndex(od, e.t, 1)] = e]

RECURSIVE OdFrom(_)
OdFrom(pt) ==
    IF pt = << >> THEN << >>
    ELSE OdSet(OdFrom(SubSeq(pt, 1, Len(pt) - 1)), pt[Len(pt)])

\* get_tags, d being the output of git tag --list: the TagSet in insertion
\* order and the ignored list.  (The commit of each tag, get_hash, is not
\* read again by the program and is left out.)
TagSetOf(pt) == [tags |-> OdFrom(pt.tags), ignored |-> pt.itags]

get_tags(d) == TagSetOf(parse_tags(d))

(***************************************************************************)
(* The tags of the model.                                                  *)
(***************************************************************************)
T_v0_0 == <<"v", "0", ".", "0">>

T_v0_0_0 == <<"v", "0", ".", "0", ".", "0">>

T_v0_0_0_rc1 == <<"v", "0", ".", "0", ".", "0", "-", "r", "c", "1">>

T_v1_0_1_265 ==
    <<"v", "1", ".", "0", ".", "1", "-", "2", "6", "5", "-",
      "g", "5", "f", "0", "c", "7", "a", "7">>

T_v0_0_7004 ==
    <<"v", "0", ".", "0", "-", "7", "0", "0", "4", "-",
      "g", "1", "c", "f", "7", "0", "e", "a", "2">>

T_0_0 == <<"0", ".", "0">>

T_v1_0_0 == <<"v", "1", ".", "0", ".", "0">>

T_v1_0 == <<"v", "1", ".", "0">>

T_v1 == <<"v", "1">>

T_not_a_version ==
    <<"n", "o", "t", "-", "a", "-", "v", "e", "r", "s", "i", "o", "n">>

T_1_x == <<"1", ".", "x">>

\* The tag lists of the two doctests of parse_tags, in their order.
DoctestTags == <<T_v0_0, T_v0_0_0, T_v0_0_0_rc1, T_v1_0_1_265, T_v0_0_7004>>

DoctestTagsNoV ==
    <<Tail(T_v0_0), Tail(T_v0_0_0), Tail(T_v0_0_0_rc1), Tail(T_v1_0_1_265),
      Tail(T_v0_0_7004)>>

\* Three tags of one version, longest first.
TieTags == <<T_v1_0_0, T_v1_0, T_v1>>

TagPool ==
    {T_v0_0, T_v0_0_0, T_v0_0_0_rc1, T_v1_0_1_265, T_v0_0_7004, T_0_0,
     T_v1_0_0, T_v1_0, T_v1, T_not_a_version, T_1_x}

\* The lists of tags of length 0..n.
RECURSIVE TagLists(_)
TagLists(n) ==
    IF n = 0 THEN {<< >>}
    ELSE TagLists(n - 1) \cup [1..n -> TagPool]

(***************************************************************************)
(* git: the tag store and git describe.                                    *)
(***************************************************************************)
\* The least string of a non-empty set.
MinStr(S) == CHOOSE x \in S : \A y \in S : ~StrLess(y, x)

\* The strings of a set in ascending order.
RECURSIVE SortedStrs(_)
SortedStrs(S) ==
    IF S = {} THEN << >>
    ELSE <<MinStr(S)>> \o SortedStrs(S \ {MinStr(S)})

\* The output of git tag --list: the tag names, one a line, sorted by name
\* (git's default order).
TagListing(S) == Unlines(SortedStrs(S))

\* The patterns git describe is given: --match 'v*', --match '*.*',
\* --exclude '*-r*'.
DescribeMatches(t) ==
    /\ At(t, 1) = "v" \/ Find(t, <<".">>, 1) # 0
    /\ Find(t, <<"-", "r">>, 1) = 0

\* The abbreviated commit hash in the descriptions of the model.
AbbrevHash == <<"1", "c", "f", "7", "0", "e", "a", "2">>

\* The output of git describe --long: TAG-DISTANCE-gHASH.
DescribeOutput(t, dist) ==
    t \o <<"-">> \o IntToStr(dist) \o <<"-", "g">> \o AbbrevHash

\* The index of the last "-" of s at or before i, 0 if there is none.
RECURSIVE LastDash(_, _)
LastDash(s, i) ==
    IF i < 1 THEN 0
    ELSE IF s[i] = "-" THEN i
    ELSE LastDash(s, i - 1)

\* t + '-' + c parsed, h and c being the places of the last two dashes of o
\* (t, c, h = o.rsplit('-', 2)); fewer than two dashes leave too few parts
\* to unpack.
DescribedVersion(o, c, h) ==
    IF h = 0 \/ c = 0 THEN Invalid
    ELSE Version(SubSeq(o, 1, c - 1) \o <<"-">> \o SubSeq(o, c + 1, h - 1))

DescribedSplit(o) ==
    DescribedVersion(o, LastDash(o, LastDash(o, Len(o)) - 1), LastDash(o, Len(o)))

DescribedStripped(d) == DescribedSplit(IF At(d, 1) = "v" THEN From(d, 2) ELSE d)

\* The version git_describe returns for the output d0 of git describe;
\* Invalid is an exception (ValueError or InvalidVersion).
git_describe(d0) == DescribedStripped(Strip(d0))

\* The tags an upstream repository may hold.
StorePool ==
    {T_v0_0, T_0_0, T_v0_0_0, T_v0_0_0_rc1, T_v1_0, T_v0_0_7004,
     T_not_a_version, T_1_x}

\* The sets of at most n elements of S.
SubsetsUpTo(S, n) == {X \in SUBSET S : Cardinality(X) <= n}

\* The oldest commit of the history, the first line of git log --reverse.
FirstCommit == "oldest"

\* The condition under which get_src creates the baseline tag:
\* 'v0.0' not in tags.
NeedsBaseline(ts) == KeyIndex(ts, T_v0_0, 1) = 0

\* tags, ignored = get_tags(env) after the baseline tag was created: the new
\* ignored list replaces the old one.
IgnoredAfterSynth_both(old, new) == old \o new

IgnoredAfterSynth(old, new) == new

(***************************************************************************)
(* State.                                                                  *)
(***************************************************************************)
VARIABLES
    va, va2, vb,   \* the versions version_join is called with
    jcalls,        \* the calls to make, in order
    jpc,           \* the index of the next call
    jres           \* the result of each call made

joinVars == <<va, va2, vb, jcalls, jpc, jres>>

VARIABLES
    d,             \* the text parse_tags and get_tags work on
    tpc,           \* "parse", "get" or "done"
    tags, itags,   \* what parse_tags returned
    tagset         \* the TagSet get_tags built

tagVars == <<d, tpc, tags, itags, tagset>>

VARIABLES
    config,        \* modules.ini: the modules in the order declared
    argv,          \* the modules named on the command line (indices)
    should_push,   \* --push was given
    token,         \* GH_TOKEN is set
    tool,          \* tool_version_vdesc
    mi,            \* the index of the module the loop is at
    pc,            \* the place main (or get_src) is at
    store,         \* the tag store of each module's upstream repository
    gtags,         \* get_src: tags
    gignored,      \* get_src: ignored
    di,            \* get_src: the index in ignored of the deletion loop
    created,       \* the git tag -a requests made, per module
    deleted,       \* the git tag --delete requests made, per module
    mdata,         \* the version fields set in each module's section
    failedAt,      \* the module an exception was raised in, 0 if none
    log            \* what was done, in order

mainVars ==
    <<config, argv, should_push, token, tool, mi, pc, store, gtags, gignored,
      di, created, deleted, mdata, failedAt, log>>

vars == <<joinVars, tagVars, mainVars>>

\* The state of a part of the program that a specification does not run.
JoinIdle ==
    /\ va = Invalid /\ va2 = Invalid /\ vb = Invalid
    /\ jcalls = << >> /\ jpc = 1
    /\ jres = << >>

NoData ==
    [data_version |-> << >>, data_version_tuple |-> << >>,
     data_git_describe |-> << >>, version |-> << >>, version_tuple |-> << >>]

MainIdle ==
    /\ config = << >> /\ argv = {} /\ should_push = FALSE /\ token = FALSE
    /\ tool = Invalid /\ mi = 1 /\ pc = "done"
    /\ store = << >> /\ gtags = << >> /\ gignored = << >> /\ di = 1
    /\ created = << >> /\ deleted = << >> /\ mdata = << >>
    /\ failedAt = 0 /\ log = << >>

TagsIdle ==
    /\ d = << >> /\ tpc = "done"
    /\ tags = << >> /\ itags = << >> /\ tagset = << >>

JoinNames == {"ab", "ba", "a2b", "ba2"}

JoinInit(calls) ==
    /\ va \in Versions
    /\ vb \in Versions
    /\ jcalls = calls
    /\ jpc = 1
    /\ jres = [c \in JoinNames |-> Invalid]

\* The calls made so far.
JoinRan == {jcalls[i] : i \in 1..(jpc - 1)}

\* The arguments of each call.
JoinArgs(c) ==
    CASE c = "ab" -> <<va, vb>>
      [] c = "ba" -> <<vb, va>>
      [] c = "a2b" -> <<va2, vb>>
      [] c = "ba2" -> <<vb, va2>>

\* One call of version_join.
JoinCall ==
    /\ jpc <= Len(jcalls)
    /\ jres' = [jres EXCEPT ![jcalls[jpc]] =
                    version_join(JoinArgs(jcalls[jpc])[1], JoinArgs(jcalls[jpc])[2])]
    /\ jpc' = jpc + 1
    /\ UNCHANGED <<va, va2, vb, jcalls, tagVars, mainVars>>

\* version_join applied to a pair of versions, in both orders.
InitJoin == JoinInit(<<"ab", "ba">>) /\ va2 = va /\ TagsIdle /\ MainIdle

SpecJoin == InitJoin /\ [][JoinCall]_vars

\* version_join applied as one argument advances from a to a2.
InitMono ==
    /\ JoinInit(<<"ab", "a2b", "ba", "ba2">>)
    /\ va2 \in Versions
    /\ VersionLE(va, va2)
    /\ TagsIdle
    /\ MainIdle

\* parse_tags and get_tags applied to a text of tags.
ParseTagsReturn(r) == tags' = r.tags /\ itags' = r.itags

ParseTagsCall ==
    /\ tpc = "parse"
    /\ ParseTagsReturn(parse_tags(d))
    /\ tpc' = "get"
    /\ UNCHANGED <<d, tagset, joinVars, mainVars>>

GetTagsCall ==
    /\ tpc = "get"
    /\ tagset' = get_tags(d).tags
    /\ tpc' = "done"
    /\ UNCHANGED <<d, tags, itags, joinVars, mainVars>>

InitTags ==
    /\ \E lines \in TagLists(MaxTags) \cup {DoctestTags, DoctestTagsNoV, TieTags} :
           d = Unlines(lines)
    /\ tpc = "parse"
    /\ tags = << >> /\ itags = << >> /\ tagset = << >>
    /\ JoinIdle
    /\ MainIdle

SpecTags == InitTags /\ [][ParseTagsCall \/ GetTagsCall]_vars

SpecMono == InitMono /\ [][JoinCall]_vars

(***************************************************************************)
(* get_src: one step for each external command it runs.                    *)
(***************************************************************************)
\* An exception leaves the function, and main with it.
Raise ==
    /\ pc' = "raised"
    /\ failedAt' = mi

\* git clone --mirror or git fetch --all, then git fetch --tags.
GetSrcFetch ==
    /\ pc = "get_src"
    /\ \/ /\ pc' = "get_tags"
          /\ UNCHANGED failedAt
       \/ Raise
    /\ UNCHANGED <<config, argv, should_push, token, tool, mi, store, gtags,
                   gignored, di, created, deleted, mdata, log>>
    /\ UNCHANGED <<joinVars, tagVars>>

\* tags, ignored = get_tags(env), and the test 'v0.0' not in tags.
GetSrcTagsReturn(r) ==
    /\ gtags' = r.tags
    /\ gignored' = r.ignored
    /\ pc' = IF NeedsBaseline(r.tags) THEN "synth" ELSE "delete"

GetSrcTags ==
    /\ pc = "get_tags"
    /\ GetSrcTagsReturn(get_tags(TagListing(store[mi])))
    /\ di' = 1
    /\ UNCHANGED <<config, argv, should_push, token, tool, mi, store, created,
                   deleted, mdata, failedAt, log>>
    /\ UNCHANGED <<joinVars, tagVars>>

\* The default tag: git log --reverse gives the first commit, git tag -a puts
\* v0.0 on it, and get_tags runs again.
GetSrcSynthReturn(r) ==
    /\ gtags' = r.tags
    /\ gignored' = IgnoredAfterSynth(gignored, r.ignored)

GetSrcSynth ==
    /\ pc = "synth"
    /\ created' =
           [created EXCEPT ![mi] = Append(@, [name |-> T_v0_0, at |-> FirstCommit])]
    /\ store' = [store EXCEPT ![mi] = @ \cup {T_v0_0}]
    /\ GetSrcSynthReturn(get_tags(TagListing(store[mi] \cup {T_v0_0})))
    /\ di' = 1
    /\ pc' = "delete"
    /\ UNCHANGED <<config, argv, should_push, token, tool, mi, deleted, mdata,
                   failedAt, log>>
    /\ UNCHANGED <<joinVars, tagVars>>

\* One turn of the loop over ignored: git tag --delete t.
GetSrcDelete ==
    /\ pc = "delete"
    /\ di <= Len(gignored)
    /\ deleted' = [deleted EXCEPT ![mi] = Append(@, gignored[di])]
    /\ store' = [store EXCEPT ![mi] = @ \ {gignored[di]}]
    /\ di' = di + 1
    /\ UNCHANGED <<config, argv, should_push, token, tool, mi, pc, gtags,
                   gignored, created, mdata, failedAt, log>>
    /\ UNCHANGED <<joinVars, tagVars>>

\* get_hash, git log -1 and git_describe of the branch, then the module's
\* data fields.  git describe names one of the tags that match its patterns
\* and a distance, or fails; git_describe raises on a description that is not
\* a version.
GetSrcDescribed(desc, vdesc) ==
    IF vdesc.ok
    THEN /\ mdata' = [mdata EXCEPT ![mi] =
                [@ EXCEPT !.data_git_describe = desc,
                          !.data_version_tuple = version_tuple(vdesc),
                          !.data_version = VersionStr(vdesc)]]
         /\ pc' = "join"
         /\ UNCHANGED failedAt
    ELSE /\ Raise
         /\ UNCHANGED mdata

GetSrcDescribe ==
    /\ pc = "delete"
    /\ di > Len(gignored)
    /\ \/ \E t \in {x \in store[mi] : DescribeMatches(x)}, dist \in 0..MaxDist :
             GetSrcDescribed(DescribeOutput(t, dist),
                             git_describe(DescribeOutput(t, dist)))
       \/ /\ Raise
          /\ UNCHANGED mdata
    /\ UNCHANGED <<config, argv, should_push, token, tool, mi, store, gtags,
                   gignored, di, created, deleted, log>>
    /\ UNCHANGED <<joinVars, tagVars>>

GetSrc ==
    GetSrcFetch \/ GetSrcTags \/ GetSrcSynth \/ GetSrcDelete \/ GetSrcDescribe

\* A module with an upstream repository ('src' is set) and one with a
\* hand-provided description (git_describe and git_hash are set).
SrcModule(S) == [kind |-> "src", tags |-> S, describe |-> << >>]

DescModule(text) == [kind |-> "desc", tags |-> {}, describe |-> text]

\* The state main is in when it enters the loop over cfg.
MainInit(cfg) ==
    /\ config = cfg
    /\ mi = 1
    /\ store = [i \in 1..Len(cfg) |-> cfg[i].tags]
    /\ gtags = << >> /\ gignored = << >> /\ di = 1
    /\ created = [i \in 1..Len(cfg) |-> << >>]
    /\ deleted = [i \in 1..Len(cfg) |-> << >>]
    /\ mdata = [i \in 1..Len(cfg) |-> NoData]
    /\ failedAt = 0

\* The tool version of the doctests' kind: v0.0-7004-g1cf70ea2.
ToolDoc == git_describe(T_v0_0_7004)

\* One run of get_src on an upstream repository.
InitSrc ==
    /\ \E S \in SubsetsUpTo(StorePool, MaxStoreTags) : MainInit(<<SrcModule(S)>>)
    /\ argv = {} /\ should_push = FALSE /\ token = FALSE
    /\ tool = ToolDoc
    /\ pc = "get_src"
    /\ log = << >>
    /\ JoinIdle
    /\ TagsIdle

SpecSrc == InitSrc /\ [][GetSrc]_vars

(***************************************************************************)
(* main.                                                                   *)
(***************************************************************************)
\* for module in config.sections(): the section after section i.
NextSection_skipping(i) == i + 2

NextSection(i) == i + 1

\* argv and module not in argv: the module is passed over.
Selected(i) == argv = {} \/ i \in argv

Event(i, what) == [m |-> i, ev |-> what]

\* tool_version, tool_version_vdesc = git_describe(): the description of
\* the tool's own checkout, or an exception.
ToolDescribes == {T_v0_0_7004, DescribeOutput(T_v1, 0)}

ToolDescribed(vdesc) ==
    IF vdesc.ok
    THEN tool' = vdesc /\ pc' = "loop"
    ELSE pc' = "raised" /\ UNCHANGED tool

MainToolDescribe ==
    /\ pc = "start"
    /\ \/ \E out \in ToolDescribes : ToolDescribed(git_describe(out))
       \/ /\ pc' = "raised"
          /\ UNCHANGED tool
    /\ UNCHANGED <<config, argv, should_push, token, mi, store, gtags, gignored,
                   di, created, deleted, mdata, failedAt, log>>
    /\ UNCHANGED <<joinVars, tagVars>>

\* The loop is past the last section.
MainLoopEnd ==
    /\ pc = "loop"
    /\ mi > Len(config)
    /\ IF should_push
       THEN IF token
            THEN pc' = "push" /\ mi' = 1
            ELSE pc' = "raised" /\ UNCHANGED mi      \* assert g.token
       ELSE pc' = "done" /\ UNCHANGED mi
    /\ UNCHANGED <<config, argv, should_push, token, tool, store, gtags,
                   gignored, di, created, deleted, mdata, failedAt, log>>
    /\ UNCHANGED <<joinVars, tagVars>>

\* continue: the module is not among those named in argv.
MainSkipModule ==
    /\ pc = "loop"
    /\ mi <= Len(config)
    /\ ~Selected(mi)
    /\ mi' = NextSection(mi)
    /\ UNCHANGED <<config, argv, should_push, token, tool, pc, store, gtags,
                   gignored, di, created, deleted, mdata, failedAt, log>>
    /\ UNCHANGED <<joinVars, tagVars>>

\* A module with 'src': start_module_output, the section's fields, get_src.
MainStartSrc ==
    /\ pc = "loop"
    /\ mi <= Len(config)
    /\ Selected(mi)
    /\ config[mi].kind = "src"
    /\ log' = Append(log, Event(mi, "start"))
    /\ pc' = "get_src"
    /\ UNCHANGED <<config, argv, should_push, token, tool, mi, store, gtags,
                   gignored, di, created, deleted, mdata, failedAt>>
    /\ UNCHANGED <<joinVars, tagVars>>

\* A module with a hand-provided description: parse_tags of it must give
\* exactly one version (the assert), whose release and string are stored.
DescribedVersions(versions) ==
    IF Len(versions) = 1
    THEN /\ mdata' = [mdata EXCEPT ![mi] =
                [@ EXCEPT !.data_git_describe = config[mi].describe,
                          !.data_version_tuple =
                              [k \in 1..Len(versions[1].v.release) |->
                                  <<versions[1].v.release[k]>>],
                          !.data_version = VersionStr(versions[1].v)]]
         /\ pc' = "join"
         /\ UNCHANGED failedAt
    ELSE /\ Raise
         /\ UNCHANGED mdata

MainStartDescribed ==
    /\ pc = "loop"
    /\ mi <= Len(config)
    /\ Selected(mi)
    /\ config[mi].kind = "desc"
    /\ log' = Append(log, Event(mi, "start"))
    /\ DescribedVersions(parse_tags(config[mi].describe).tags)
    /\ UNCHANGED <<config, argv, should_push, token, tool, mi, store, gtags,
                   gignored, di, created, deleted>>
    /\ UNCHANGED <<joinVars, tagVars>>

\* module_version = version_join(tool_version_vdesc, Version(data_version)),
\* then version and version_tuple of the section.
ModuleVersion(module_version) ==
    IF module_version.ok
    THEN /\ mdata' = [mdata EXCEPT ![mi] =
                [@ EXCEPT !.version = VersionStr(module_version),
                          !.version_tuple = version_tuple(module_version)]]
         /\ pc' = "github_repo"
         /\ UNCHANGED failedAt
    ELSE /\ Raise
         /\ UNCHANGED mdata

MainVersionJoin ==
    /\ pc = "join"
    /\ ModuleVersion(version_join(tool, Version(mdata[mi].data_version)))
    /\ UNCHANGED <<config, argv, should_push, token, tool, mi, store, gtags,
                   gignored, di, created, deleted, log>>
    /\ UNCHANGED <<joinVars, tagVars>>

\* An output step of the module: github_repo, download, update.  Each runs
\* external commands, which may fail.
OutputStep(at, next) ==
    /\ pc = at
    /\ \/ /\ log' = Append(log, Event(mi, at))
          /\ pc' = next
          /\ mi' = IF next = "loop" THEN NextSection(mi) ELSE mi
          /\ UNCHANGED failedAt
       \/ /\ Raise
          /\ UNCHANGED <<log, mi>>
    /\ UNCHANGED <<config, argv, should_push, token, tool, store, gtags,
                   gignored, di, created, deleted, mdata>>
    /\ UNCHANGED <<joinVars, tagVars>>

MainGithubRepo == OutputStep("github_repo", "download")

MainDownload == OutputStep("download", "update")

MainUpdate == OutputStep("update", "loop")

\* The second loop, under --push: push of every selected module.
MainPush ==
    /\ pc = "push"
    /\ IF mi > Len(config)
       THEN pc' = "done" /\ UNCHANGED <<mi, log, failedAt>>
       ELSE IF ~Selected(mi)
       THEN mi' = NextSection(mi) /\ UNCHANGED <<pc, log, failedAt>>
       ELSE \/ /\ log' = Append(log, Event(mi, "push"))
               /\ mi' = NextSection(mi)
               /\ UNCHANGED <<pc, failedAt>>
            \/ /\ Raise
               /\ UNCHANGED <<mi, log>>
    /\ UNCHANGED <<config, argv, should_push, token, tool, store, gtags,
                   gignored, di, created, deleted, mdata>>
    /\ UNCHANGED <<joinVars, tagVars>>

\* The modules a configuration is made of.
TwoVersions == Unlines(<<T_v1_0, T_v0_0_7004>>)

ModulePool ==
    {SrcModule({}), SrcModule({T_v0_0, T_not_a_version}),
     DescModule(T_v0_0_7004), DescModule(T_v1), DescModule(TwoVersions)}

\* The configurations of 1..n modules.
RECURSIVE Configs(_)
Configs(n) ==
    IF n = 0 THEN {}
    ELSE Configs(n - 1) \cup [1..n -> ModulePool]

InitMain ==
    /\ \E cfg \in Configs(MaxModules) :
           /\ MainInit(cfg)
           /\ argv \in {{}} \cup {{i} : i \in 1..Len(cfg)}
    /\ should_push \in BOOLEAN
    /\ token \in BOOLEAN
    /\ tool = Invalid
    /\ pc = "start"
    /\ log = << >>
    /\ JoinIdle
    /\ TagsIdle

NextMain ==
    \/ MainToolDescribe \/ MainLoopEnd \/ MainSkipModule
    \/ MainStartSrc \/ MainStartDescribed \/ GetSrc
    \/ MainVersionJoin \/ MainGithubRepo \/ MainDownload \/ MainUpdate
    \/ MainPush

SpecMain == InitMain /\ [][NextMain]_vars

(***************************************************************************)
(* Claims about version_join.                                              *)
(***************************************************************************)
Last(r) == r[Len(r)]

Most(r) == SubSeq(r, 1, Len(r) - 1)

\* The element-wise sum of two integer sequences aligned at their last
\* elements, the shorter one padded with zeros at its front.
AlignedSum(x, y) ==
    LET n == Max(Len(x), Len(y))
        px == [i \in 1..(n - Len(x)) |-> 0] \o x
        py == [i \in 1..(n - Len(y)) |-> 0] \o y
    IN  [i \in 1..n |-> px[i] + py[i]]

\* C1: version_join of two versions that both lack a post-release count
\* returns the version whose post-release count is the sum of the two last
\* release components and whose release is the sum of the remaining
\* components aligned from the last one, the shorter release padded with
\* zeros at its front; version_join(1.2, 3.4.5) is 3.5.post7.
C1_JoinOfPostlessVersions ==
    ("ab" \in JoinRan /\ va.post = << >> /\ vb.post = << >>) =>
        /\ jres["ab"].ok
        /\ jres["ab"].post = <<Last(va.release) + Last(vb.release)>>
        /\ jres["ab"].release = AlignedSum(Most(va.release), Most(vb.release))
        /\ jres["ab"].pre = << >>
        /\ (va = V12 /\ vb = V345 =>
                jres["ab"] = MkVersion(<<3, 5>>, << >>, <<7>>))

\* The doctest of version_join by itself: 1.2 joined with 3.4.5 is
\* 3.5.post7.
C1_DoctestHolds ==
    ("ab" \in JoinRan /\ va = V12 /\ vb = V345) =>
        jres["ab"] = MkVersion(<<3, 5>>, << >>, <<7>>)

C1_DoctestReached == "ab" \in JoinRan /\ va = V12 /\ vb = V345

\* C2: version_join(a, b) and version_join(b, a) give the same outcome:
\* both fail, or both return versions that compare equal.
C2_JoinCommutes ==
    ({"ab", "ba"} \subseteq JoinRan) =>
        /\ jres["ab"].ok = jres["ba"].ok
        /\ (jres["ab"].ok => VersionEq(jres["ab"], jres["ba"]))

\* C2 happens: both orders were computed for releases of different lengths,
\* one version with a post-release count and one without.
C2_Witness ==
    /\ {"ab", "ba"} \subseteq JoinRan
    /\ Len(va.release) < Len(vb.release)
    /\ va.post # << >>
    /\ vb.post = << >>
    /\ jres["ab"].ok
    /\ jres["ab"].release # vb.release

\* C3: the composite version does not go backward when one argument alone
\* advances: a <= a2 gives version_join(a, b) <= version_join(a2, b) and
\* version_join(b, a) <= version_join(b, a2).
C3_JoinMonotone ==
    /\ ({"ab", "a2b"} \subseteq JoinRan /\ jres["ab"].ok /\ jres["a2b"].ok) =>
           VersionLE(jres["ab"], jres["a2b"])
    /\ ({"ba", "ba2"} \subseteq JoinRan /\ jres["ba"].ok /\ jres["ba2"].ok) =>
           VersionLE(jres["ba"], jres["ba2"])

\* C3 as main uses version_join: the first argument is a described version,
\* which always has a post-release count, and so has the second.
C3_JoinMonotoneDescribed ==
    ({"ab", "a2b"} \subseteq JoinRan /\ jres["ab"].ok /\ jres["a2b"].ok
        /\ va.post # << >> /\ va2.post # << >> /\ vb.post # << >>) =>
           VersionLE(jres["ab"], jres["a2b"])

\* C4: version_join does not raise for valid versions of one to three
\* release components: it returns a version with a non-empty release.
C4_JoinNeverRaises ==
    ("ab" \in JoinRan /\ Len(va.release) <= 3 /\ Len(vb.release) <= 3) =>
        /\ jres["ab"].ok
        /\ jres["ab"].release # << >>

(***************************************************************************)
(* Claims about parse_tags and get_tags.                                   *)
(***************************************************************************)
\* The order of versions as the specification words it: the releases are
\* compared after the shorter is padded with zeros, and at equal releases
\* a pre-release is below the plain release and a post-release above it.
SpecRank(v) == IF v.pre # << >> THEN 0 ELSE IF v.post # << >> THEN 2 ELSE 1

PadRelease(r, n) == r \o [i \in 1..(n - Len(r)) |-> 0]

SpecLess(a, b) ==
    LET n == Max(Len(a.release), Len(b.release))
        ra == PadRelease(a.release, n)
        rb == PadRelease(b.release, n)
    IN  IntSeqLess(ra, rb) \/ (ra = rb /\ SpecRank(a) < SpecRank(b))

\* The number of times x occurs in the sequence s.
Count(s, x) == Cardinality({i \in 1..Len(s) : s[i] = x})

\* The first position of x in s.
FirstIndex(s, x) == CHOOSE i \in 1..Len(s) : s[i] = x /\ \A k \in 1..(i - 1) : s[k] # x

InputLines == SplitLines(d)

\* The elements of a sequence.
Range(q) == {q[i] : i \in 1..Len(q)}

\* C5: parse_tags returns the valid tags, each once per line, in ascending
\* version order, and the doctests' tags in the doctests' order.
C5_ParseTagsAscending ==
    (tpc # "parse") =>
        LET lines == InputLines
            names == TagNames(tags)
        IN  /\ \A i, j \in 1..Len(tags) :
                   i < j => ~SpecLess(tags[j].v, tags[i].v)
            /\ \A t \in Range(lines) \cup Range(names) :
                   Count(names, t) =
                       (IF LineVersion(t).ok THEN Count(lines, t) ELSE 0)
            /\ (lines = DoctestTags =>
                   names = <<T_v0_0_0_rc1, T_v0_0, T_v0_0_0, T_v0_0_7004,
                             T_v1_0_1_265>>)
            /\ (lines = DoctestTagsNoV =>
                   names = <<Tail(T_v0_0_0_rc1), Tail(T_v0_0), Tail(T_v0_0_0),
                             Tail(T_v0_0_7004), Tail(T_v1_0_1_265)>>)

\* C5 happens: the doctest's list was parsed and all five tags are valid.
C5_Witness == tpc = "done" /\ InputLines = DoctestTags /\ Len(tags) = 5

\* C6 as claimed: tags that parse to equal versions keep their first-seen
\* order, in the list parse_tags returns and in the TagSet of get_tags.
C6_TiesKeepFirstSeenOrder ==
    /\ (tpc # "parse") =>
           \A i, j \in 1..Len(tags) :
               (i < j /\ VersionEq(tags[i].v, tags[j].v)) =>
                   FirstIndex(InputLines, tags[i].t)
                       <= FirstIndex(InputLines, tags[j].t)
    /\ (tpc = "done") =>
           \A i, j \in 1..Len(tagset) :
               (i < j /\ VersionEq(tagset[i].v, tagset[j].v)) =>
                   FirstIndex(InputLines, tagset[i].t)
                       <= FirstIndex(InputLines, tagset[j].t)

\* C6 amended: tags that parse to equal versions are ordered by their tag
\* strings, ascending by code point, whatever their order in the input, in
\* the list parse_tags returns and in the TagSet of get_tags.
C6_TiesOrderedByTagString ==
    /\ (tpc # "parse") =>
           \A i, j \in 1..Len(tags) :
               (i < j /\ VersionEq(tags[i].v, tags[j].v)) =>
                   ~StrLess(tags[j].t, tags[i].t)
    /\ (tpc = "done") =>
           \A i, j \in 1..Len(tagset) :
               (i < j /\ VersionEq(tagset[i].v, tagset[j].v)) =>
                   ~StrLess(tagset[j].t, tagset[i].t)

\* C6 happens: two tags of equal version came out in the reverse of their
\* input order.
C6_Witness ==
    /\ tpc = "done"
    /\ \E i, j \in 1..Len(tagset) :
           /\ i < j
           /\ VersionEq(tagset[i].v, tagset[j].v)
           /\ tagset[i].t # tagset[j].t
           /\ FirstIndex(InputLines, tagset[i].t)
                  > FirstIndex(InputLines, tagset[j].t)
           /\ tags[i] = tagset[i] /\ tags[j] = tagset[j]

(***************************************************************************)
(* Claims about get_src.                                                   *)
(***************************************************************************)
\* A tag that fails to parse.
Malformed(t) == ~LineVersion(t).ok

\* get_src is past its loop over the ignored tags.
PastDeletes == pc = "join" \/ (pc = "delete" /\ di > Len(gignored))

\* The tags the repository of module i held when get_src began.
TagsAtStart(i) == config[i].tags

\* C7: every tag that fails to parse is in the ignored list under its own
\* name and not in the valid set; over one run of get_src each such tag gets
\* exactly one delete request, also when the baseline tag was created and
\* the tags were read twice; no valid tag is deleted, and no malformed tag
\* is left in the store when get_src is done.
C7_MalformedTagsDeletedOnce ==
    /\ (pc \in {"synth", "delete", "join"}) =>
           /\ \A t \in TagsAtStart(mi) :
                  Malformed(t) =>
                      /\ Count(gignored, t) = 1
                      /\ KeyIndex(gtags, t, 1) = 0
           /\ \A t \in Range(gignored) : t \in TagsAtStart(mi) /\ Malformed(t)
    /\ (pc \in {"get_src", "get_tags", "synth", "delete", "join"}) =>
           \A t \in Range(deleted[mi]) :
               Count(deleted[mi], t) = 1 /\ Malformed(t)
    /\ PastDeletes =>
           /\ \A t \in TagsAtStart(mi) :
                  /\ Malformed(t) => Count(deleted[mi], t) = 1 /\ t \notin store[mi]
                  /\ ~Malformed(t) => Count(deleted[mi], t) = 0 /\ t \in store[mi]
           /\ \A t \in store[mi] : ~Malformed(t)

\* C7 happens: get_src returned after it created the baseline tag, read the
\* tags twice and deleted two malformed tags.
C7_Witness ==
    /\ pc = "join"
    /\ Len(created[mi]) = 1
    /\ Len(deleted[mi]) = 2
    /\ deleted[mi][1] # deleted[mi][2]

\* The baseline value 0.0: release [0, 0], no pre- or post-release.
IsBaseline(v) == v.ok /\ v.release = <<0, 0>> /\ v.pre = << >> /\ v.post = << >>

\* C8: get_src creates the baseline tag v0.0, on the oldest commit, exactly
\* when no tag of the repository parses to the baseline value 0.0.
C8_BaselineIffNoneParsesToIt ==
    (pc \in {"delete", "join"}) =>
        /\ (created[mi] # << >>) <=>
               ~(\E t \in TagsAtStart(mi) : IsBaseline(LineVersion(t)))
        /\ \A k \in 1..Len(created[mi]) :
               created[mi][k] = [name |-> T_v0_0, at |-> FirstCommit]
        /\ Len(created[mi]) <= 1

\* The part of C8 the code keeps: the baseline tag is created exactly when
\* no tag is named v0.0, once, on the oldest commit.
C8_BaselineIffNoTagNamedV00 ==
    (pc \in {"delete", "join"}) =>
        /\ (created[mi] # << >>) <=> (T_v0_0 \notin TagsAtStart(mi))
        /\ \A k \in 1..Len(created[mi]) :
               created[mi][k] = [name |-> T_v0_0, at |-> FirstCommit]
        /\ Len(created[mi]) <= 1

(***************************************************************************)
(* Claims about main.                                                      *)
(***************************************************************************)
\* Module j was begun: start_module_output ran for it in the first loop.
Started(j) == \E k \in 1..Len(log) : log[k] = Event(j, "start")

\* The events of the first loop, in the order they happened.
Processing == SelectSeq(log, LAMBDA e : e.ev # "push")

OutputEvents == {"github_repo", "download", "update"}

\* All of the data version and the composite version of module i is set.
Resolved(i) ==
    /\ mdata[i].data_version # << >>
    /\ mdata[i].data_version_tuple # << >>
    /\ mdata[i].data_git_describe # << >>
    /\ mdata[i].version # << >>
    /\ mdata[i].version_tuple # << >>

\* C9: when the run has ended on a failure in module failedAt, every
\* selected module declared after it was still processed.
C9_FailureDoesNotAbortRun ==
    (pc = "raised" /\ failedAt # 0) =>
        \A j \in (failedAt + 1)..Len(config) : Selected(j) => Started(j)

\* The failure C9 is about happened in the first loop, with a selected
\* module declared after the failing one.
C9_FailureReached ==
    /\ pc = "raised"
    /\ failedAt # 0
    /\ failedAt < Len(config)
    /\ Selected(failedAt + 1)
    /\ \A k \in 1..Len(log) : log[k].ev # "push"

\* C10: the first loop goes through the selected modules, and only them, in
\* the order of the configuration, none missed once the loop is over; and
\* a module's data version and composite version are set before each of its
\* outputs (github_repo, download, update) and before its push.
C10_DeclaredOrderVersionFirst ==
    /\ \A i, j \in 1..Len(Processing) :
           i < j => Processing[i].m <= Processing[j].m
    /\ \A k \in 1..Len(log) :
           /\ log[k].m \in 1..Len(config)
           /\ Selected(log[k].m)
           /\ log[k].ev # "start" => Resolved(log[k].m)
    /\ \A j \in 1..Len(config) : Count(log, Event(j, "start")) <= 1
    /\ (pc \in {"push", "done"}) =>
           \A j \in 1..Len(config) : Selected(j) => Started(j)
    /\ (pc \in {"get_src", "get_tags", "synth", "delete", "join"}
            \cup OutputEvents) =>
           /\ Started(mi)
           /\ \A j \in 1..(mi - 1) : Selected(j) => Started(j)
    /\ (pc \in OutputEvents) => Resolved(mi)

\* C10 happens: two modules were declared and selected, and the run is over
\* with the outputs of both generated, one from an upstream repository and
\* one from a hand-provided description.
C10_Witness ==
    /\ pc = "done"
    /\ Len(config) = 2
    /\ config[1].kind # config[2].kind
    /\ \A j \in 1..2 : \E k \in 1..Len(log) : log[k] = Event(j, "update")

(***************************************************************************)
(* The post-release slot of version_join.                                  *)
(***************************************************************************)
\* The post-release count of a version, an absent one counted as 0.
PostCount(v) == IF v.post = << >> THEN 0 ELSE v.post[1]

C11_HoldsWithAPostCount ==
    ("ab" \in JoinRan /\ (va.post # << >> \/ vb.post # << >>)) =>
        /\ jres["ab"].ok
        /\ jres["ab"].post = <<PostCount(va) + PostCount(vb)>>
        /\ jres["ab"].release = AlignedSum(va.release, vb.release)

\* The two cases are reached: the doctest's pair without post-release
\* counts, and releases of different lengths with one count present.
C11_PostlessReached ==
    "ab" \in JoinRan /\ va = V12 /\ vb = V345 /\ jres["ab"].post = <<7>>

C11_WithAPostCountReached ==
    /\ "ab" \in JoinRan
    /\ va.post # << >> /\ vb.post = << >>
    /\ Len(va.release) < Len(vb.release)
    /\ jres["ab"].ok

(***************************************************************************)
(* The data_version_tuple main emits.                                      *)
(***************************************************************************)
\* The data version of module i is set.
HasDataVersion(i) == mdata[i].data_version # << >>

\* The version the data_version string of module i stands for.
DataVersion(i) == Version(mdata[i].data_version)

\* The shape version_tuple gives: the release integers in order, unpadded,
\* then one slot with the post-release count or None.
TupleShape(tup, v) ==
    /\ Len(tup) = Len(v.release) + 1
    /\ \A k \in 1..Len(v.release) : tup[k] = <<v.release[k]>>
    /\ tup[Len(tup)] = v.post

\* C12: for every module, from an upstream repository or hand-described,
\* the emitted data_version_tuple has the shape of version_tuple.
C12_DataTupleShape ==
    \A i \in 1..Len(mdata) :
        HasDataVersion(i) =>
            TupleShape(mdata[i].data_version_tuple, DataVersion(i))

\* What main keeps of C12: the modules with an upstream repository.
C12_SrcDataTupleShape ==
    \A i \in 1..Len(mdata) :
        (HasDataVersion(i) /\ config[i].kind = "src") =>
            TupleShape(mdata[i].data_version_tuple, DataVersion(i))

\* The two kinds of module got their data version.
C12_DescribedReached ==
    \E i \in 1..Len(mdata) :
        /\ HasDataVersion(i) /\ config[i].kind = "desc"
        /\ DataVersion(i).post # << >>

C12_SrcReached ==
    \E i \in 1..Len(mdata) : HasDataVersion(i) /\ config[i].kind = "src"

=============================================================================
